---- MODULE Spec2Model ----
(***************************************************************************)
(* A model of ode_system.py: the ODESystem class (construction, the        *)
(* derivative getters, from_equations, __repr__, power_matrix,             *)
(* maximal_scaling_matrix, reorder_variables) and the module functions     *)
(* parse_de and rational_expr_to_power_matrix.                             *)
(*                                                                         *)
(* Symbols are strings.  "xp" stands for a second symbol object that       *)
(* prints as "x" (sympy.Symbol('x', positive=True)): equal name, different *)
(* identity.  A monomial is a rational coefficient cn/cd times a product   *)
(* of integer powers e[v]; a polynomial is the sequence of its terms in    *)
(* the order sympy's Add.args yields them; a rational expression is a      *)
(* numerator and a denominator polynomial.                                 *)
(***************************************************************************)
EXTENDS Integers, Sequences, FiniteSets, TLC

VARIABLES sys, ret

vars == <<sys, ret>>

\* -------------------------------------------------------------- bounds
\* longest variable and derivative sequences handed to the constructor
MaxVars == 2
\* longest sequence handed to reorder_variables
MaxOrder == 3
\* most equation lines handed to from_equations
MaxEqs == 2

\* ------------------------------------------------------------- symbols
\* an absent symbol argument (indep_var=None)
NoSym == "None"
Syms == {"t", "s", "x", "xp"}
PlainSyms == {"t", "s", "x"}
\* the symbols handed to the constructor directly
CtorSyms == {"t", "x", "xp"}

str(v) == IF v = "xp" THEN "x" ELSE v

StrRank(v) == CASE str(v) = "s" -> 1 [] str(v) = "t" -> 2 [] OTHER -> 3

Range(f) == {f[i] : i \in DOMAIN f}

RECURSIVE SeqsUpTo(_, _)
SeqsUpTo(S, n) ==
    IF n = 0 THEN {<<>>}
    ELSE LET shorter == SeqsUpTo(S, n - 1)
         IN  shorter \cup {Append(q, x) : q \in {p \in shorter : Len(p) = n - 1}, x \in S}

NonEmptySeqs(S, n) == SeqsUpTo(S, n) \ {<<>>}

RECURSIVE Perms(_)
Perms(S) ==
    IF S = {} THEN {<<>>}
    ELSE UNION {{<<x>> \o p : p \in Perms(S \ {x})} : x \in S}

RECURSIVE Flatten(_)
Flatten(ss) == IF ss = <<>> THEN <<>> ELSE Head(ss) \o Flatten(Tail(ss))

Abs(k) == IF k < 0 THEN -k ELSE k

Min2(a, b) == IF a < b THEN a ELSE b

\* ---------------------------------------------------- sympy expressions
ZeroPow == [v \in Syms |-> 0]

Const(k) == [cn |-> k, cd |-> 1, e |-> ZeroPow]

Sym(v) == [cn |-> 1, cd |-> 1, e |-> [w \in Syms |-> IF w = v THEN 1 ELSE 0]]

MonMul(a, b) == [cn |-> a.cn * b.cn, cd |-> a.cd * b.cd, e |-> [v \in Syms |-> a.e[v] + b.e[v]]]

MonDiv(a, b) == [cn |-> a.cn * b.cd, cd |-> a.cd * b.cn, e |-> [v \in Syms |-> a.e[v] - b.e[v]]]

IsNumber(m) == m.e = ZeroPow

\* Python's None in the place of an expression
None == [num |-> <<>>, den |-> <<>>]

Zero == [num |-> <<>>, den |-> <<Const(1)>>]
One == [num |-> <<Const(1)>>, den |-> <<Const(1)>>]

\* indep_var * expr / var, before any cancellation
MulDiv(indep, expr, var) ==
    [num |-> [i \in DOMAIN expr.num |-> MonMul(Sym(indep), expr.num[i])],
     den |-> [i \in DOMAIN expr.den |-> MonMul(Sym(var), expr.den[i])]]

\* The power of v common to every term of the numerator and the denominator.
CommonPow(expr, v) ==
    LET all == Range(expr.num) \cup Range(expr.den)
        low == CHOOSE k \in {m.e[v] : m \in all} : \A m \in all : k <= m.e[v]
    IN  low

\* Expr.cancel(): numerator and denominator without a common factor.  The
\* expressions of this model share monomial factors only.
cancel(expr) ==
    IF expr.num = <<>> THEN Zero
    ELSE LET g == [cn |-> 1, cd |-> 1, e |-> [v \in Syms |-> CommonPow(expr, v)]]
         IN  [num |-> [i \in DOMAIN expr.num |-> MonDiv(expr.num[i], g)],
              den |-> [i \in DOMAIN expr.den |-> MonDiv(expr.den[i], g)]]

as_numer_denom(expr) == <<expr.num, expr.den>>

\* Add.as_coeff_add(): the numeric term (0 when there is none) and the others.
as_coeff_add(poly) ==
    LET consts == SelectSeq(poly, IsNumber)
        NotNumber(m) == ~IsNumber(m)
    IN  <<IF consts = <<>> THEN Const(0) ELSE consts[1], SelectSeq(poly, NotNumber)>>

free_symbols(expr) ==
    {v \in Syms : \E m \in Range(expr.num) \cup Range(expr.den) : m.e[v] # 0}

\* ------------------------------------------------------------ sympy_helper
monomial_to_powers(mon, variables) == [i \in DOMAIN variables |-> mon.e[variables[i]]]

expressions_to_variables(exprs) == UNION {free_symbols(e) : e \in exprs}

RECURSIVE unique_array_stable(_)
unique_array_stable(seq) ==
    IF seq = <<>> THEN <<>>
    ELSE LET front == unique_array_stable(SubSeq(seq, 1, Len(seq) - 1))
             last == seq[Len(seq)]
         IN  IF last \in Range(front) THEN front ELSE Append(front, last)

\* sorted(S, key=str) on a set of symbols with pairwise different names
sorted_by_str(S) ==
    CHOOSE p \in Perms(S) : \A i, j \in DOMAIN p : i < j => StrRank(p[i]) < StrRank(p[j])

\* ------------------------------------------------------------------ numpy
\* numpy.array(list of equally long integer lists)
numpy_array(list) ==
    IF list = <<>> THEN [shape |-> <<0>>, data |-> <<>>]
    ELSE [shape |-> <<Len(list), Len(list[1])>>, data |-> list]

\* ndarray.T: a 1-d array is its own transpose
Transpose(a) ==
    IF Len(a.shape) < 2 THEN a
    ELSE [shape |-> <<a.shape[2], a.shape[1]>>,
          data |-> [i \in 1..a.shape[2] |-> [j \in 1..a.shape[1] |-> a.data[j][i]]]]

RECURSIVE SumSeq(_)
SumSeq(q) == IF q = <<>> THEN 0 ELSE Head(q) + SumSeq(Tail(q))

\* numpy.hstack: axis 0 when the first array is 1-d, axis 1 otherwise; the
\* arrays must agree on the number of dimensions and on the other axes.
hstack_raises(arrs) ==
    \/ \E i \in DOMAIN arrs : Len(arrs[i].shape) # Len(arrs[1].shape)
    \/ Len(arrs[1].shape) = 2 /\ \E i \in DOMAIN arrs : arrs[i].shape[1] # arrs[1].shape[1]

hstack(arrs) ==
    IF Len(arrs[1].shape) = 1
    THEN [shape |-> <<SumSeq([i \in DOMAIN arrs |-> arrs[i].shape[1]])>>,
          data |-> Flatten([i \in DOMAIN arrs |-> arrs[i].data])]
    ELSE [shape |-> <<arrs[1].shape[1], SumSeq([i \in DOMAIN arrs |-> arrs[i].shape[2]])>>,
          data |-> [r \in 1..arrs[1].shape[1] |->
                        Flatten([i \in DOMAIN arrs |-> arrs[i].data[r]])]]

\* ------------------------------------------- rational_expr_to_power_matrix
\* select_terms taking the first denominator term, not the last, as the reference
select_terms_first(n, d) ==
    IF d[1].cn # 0
    THEN [ref_power |-> Const(1),
          num_terms |-> IF n[1].cn # 0 THEN Append(n[2], n[1]) ELSE n[2],
          denom_terms |-> d[2]]
    ELSE IF n[1].cn # 0
    THEN [ref_power |-> Const(1), num_terms |-> n[2], denom_terms |-> d[2]]
    ELSE [ref_power |-> d[2][1], num_terms |-> n[2], denom_terms |-> Tail(d[2])]

\* Lines 154-165 on (num_const, num_terms) and (denom_const, denom_terms):
\* the reference power and the terms that become columns.
select_terms(n, d) ==
    IF d[1].cn # 0
    THEN [ref_power |-> Const(1),
          num_terms |-> IF n[1].cn # 0 THEN Append(n[2], n[1]) ELSE n[2],
          denom_terms |-> d[2]]
    ELSE IF n[1].cn # 0
    THEN [ref_power |-> Const(1), num_terms |-> n[2], denom_terms |-> d[2]]
    ELSE [ref_power |-> d[2][Len(d[2])],
          num_terms |-> n[2],
          denom_terms |-> SubSeq(d[2], 1, Len(d[2]) - 1)]

\* Lines 150-152 on the cancelled expression
split_terms(e) == select_terms(as_coeff_add(as_numer_denom(e)[1]), as_coeff_add(as_numer_denom(e)[2]))

rational_terms(expr) == split_terms(cancel(expr))

\* Lines 167-172: one exponent vector per term, as the columns of the result
powers_array(mons, ref_power, variables) ==
    Transpose(numpy_array([i \in DOMAIN mons |-> monomial_to_powers(MonDiv(mons[i], ref_power), variables)]))

terms_to_matrix(rt, variables) == powers_array(rt.num_terms \o rt.denom_terms, rt.ref_power, variables)

rational_expr_to_power_matrix(expr, variables) == terms_to_matrix(rational_terms(expr), variables)

\* ---------------------------------------------------------- hermite_helper
RowAddMul(row, k, other) == [j \in DOMAIN row |-> row[j] + k * other[j]]

Positive(row, c) == IF row[c] < 0 THEN [j \in DOMAIN row |-> -row[j]] ELSE row

\* the row of least nonzero magnitude in column c among the rows nz
PivotRow(M, nz, c) ==
    CHOOSE i \in nz : \A j \in nz :
        \/ Abs(M[i][c]) < Abs(M[j][c])
        \/ Abs(M[i][c]) = Abs(M[j][c]) /\ i <= j

\* the pivot row piv (taken from row p) moves to row r; the rows above are reduced by it
SwapReduce(M, r, c, p, piv) ==
    [i \in DOMAIN M |->
        IF i = r THEN piv
        ELSE IF i = p THEN M[r]
        ELSE IF i < r THEN RowAddMul(M[i], -(M[i][c] \div piv[c]), piv)
        ELSE M[i]]

\* the rows nz other than p are reduced by the pivot row piv
Eliminate(M, nz, c, p, piv) ==
    [i \in DOMAIN M |->
        IF i = p THEN piv
        ELSE IF i \in nz THEN RowAddMul(M[i], -(M[i][c] \div piv[c]), piv)
        ELSE M[i]]

\* Row reduction of the rows r..n of M on the columns c..m (integer row
\* operations only: swap, negate, add a multiple of another row).
RECURSIVE hnf_reduce(_, _, _, _)
RECURSIVE hnf_pivot(_, _, _, _, _, _)
hnf_pivot(M, r, c, m, nz, p) ==
    IF nz = {p}
    THEN hnf_reduce(SwapReduce(M, r, c, p, Positive(M[p], c)), r + 1, c + 1, m)
    ELSE hnf_reduce(Eliminate(M, nz, c, p, Positive(M[p], c)), r, c, m)

hnf_column(M, r, c, m, nz) ==
    IF nz = {} THEN hnf_reduce(M, r, c + 1, m)
    ELSE hnf_pivot(M, r, c, m, nz, PivotRow(M, nz, c))

hnf_reduce(M, r, c, m) ==
    IF c > m \/ r > Len(M) THEN M
    ELSE hnf_column(M, r, c, m, {i \in r..Len(M) : M[i][c] # 0})

hnf_split(red, n, m) ==
    <<[shape |-> <<n, m>>, data |-> [i \in 1..n |-> SubSeq(red[i], 1, m)]],
      [shape |-> <<n, n>>, data |-> [i \in 1..n |-> SubSeq(red[i], m + 1, m + n)]]>>

\* hnf_row(A) = (H, U): H the row-style Hermite normal form of A, U unimodular, U.A = H
hnf_row(A) ==
    hnf_split(hnf_reduce([i \in 1..A.shape[1] |->
                             A.data[i] \o [j \in 1..A.shape[1] |-> IF i = j THEN 1 ELSE 0]],
                         1, 1, A.shape[2]),
              A.shape[1], A.shape[2])

\* ---------------------------------------------------------------- ODESystem
NoSys == [variables |-> <<>>, derivatives |-> <<>>, indep_var |-> NoSym]

\* tuple.index: the first position holding v
index(seq, v) == CHOOSE i \in DOMAIN seq : seq[i] = v /\ \A j \in 1..(i - 1) : seq[j] # v

\* the derivatives getter: None reads as 0
derivatives(self) ==
    [i \in DOMAIN self.derivatives |->
        IF self.derivatives[i] # None THEN self.derivatives[i] ELSE Zero]

\* init_checked without the assertion on the independent variable's derivative
init_checked_two(self) ==
    IF self.indep_var \notin Range(self.variables) THEN [status |-> "AssertionError", self |-> NoSys]
    ELSE IF Len(self.variables) # Len(self.derivatives) THEN [status |-> "AssertionError", self |-> NoSys]
    ELSE [status |-> "ok", self |-> self]

\* the three assertions of __init__ on the assigned fields
init_checked(self) ==
    IF self.indep_var \notin Range(self.variables) THEN [status |-> "AssertionError", self |-> NoSys]
    ELSE IF Len(self.variables) # Len(self.derivatives) THEN [status |-> "AssertionError", self |-> NoSys]
    ELSE IF derivatives(self)[index(self.variables, self.indep_var)] # One
         THEN [status |-> "AssertionError", self |-> NoSys]
    ELSE [status |-> "ok", self |-> self]

\* ODESystem.__init__: the instance, or the failure of one of its assertions
init(variables_, derivatives_, indep_var_) ==
    init_checked([variables |-> variables_, derivatives |-> derivatives_,
                  indep_var |-> IF indep_var_ = NoSym THEN "t" ELSE indep_var_])

\* the keys of derivative_dict, and its value at a key (a later pair replaces an earlier one)
derivative_dict_keys(self) ==
    {self.variables[i] : i \in {j \in DOMAIN self.variables : self.derivatives[j] # None}}

LastOf(at) == CHOOSE i \in at : \A j \in at : j <= i

derivative_dict(self, var) ==
    self.derivatives[LastOf({i \in DOMAIN self.variables :
                                self.variables[i] = var /\ self.derivatives[i] # None})]

\* repr going through derivative_dict: no line for an unspecified derivative
repr_specified(self) ==
    LET spec == SelectSeq([i \in DOMAIN self.variables |-> i], LAMBDA i : self.derivatives[i] # None)
    IN  [k \in DOMAIN spec |->
            [var |-> str(self.variables[spec[k]]), indep |-> str(self.indep_var),
             expr |-> self.derivatives[spec[k]]]]

\* __repr__: the lines joined by newlines; a line is what format() was given
repr(self) ==
    [i \in 1..Min2(Len(self.variables), Len(self.derivatives)) |->
        [var |-> str(self.variables[i]), indep |-> str(self.indep_var), expr |-> derivatives(self)[i]]]

\* Lines 71-73: the blocks are stacked and the row count asserted
stack_blocks(self, matrices) ==
    IF hstack_raises(matrices) THEN [status |-> "ValueError", value |-> <<>>]
    ELSE IF hstack(matrices).shape[1] # Len(self.variables) THEN [status |-> "AssertionError", value |-> <<>>]
    ELSE [status |-> "ok", value |-> hstack(matrices)]

\* power_matrix, the dictionary being iterated in the order `order`
power_matrix(self, order) ==
    stack_blocks(self, [i \in DOMAIN order |->
        rational_expr_to_power_matrix(
            MulDiv(self.indep_var, derivative_dict(self, order[i]), order[i]), self.variables)])

IsZeroRow(row) == \A j \in DOMAIN row : row[j] = 0

\* last_rows returning the first num_nonzero rows of the multiplier, not the last
first_rows(self, hermite_rform, multiplier_rform, num_nonzero) ==
    IF num_nonzero = 0
    THEN [status |-> "ok", value |-> <<[j \in DOMAIN self.variables |-> 0]>>]
    ELSE IF \E i \in (Len(hermite_rform.data) - num_nonzero + 1)..Len(hermite_rform.data) :
                ~IsZeroRow(hermite_rform.data[i])
         THEN [status |-> "AssertionError", value |-> <<>>]
    ELSE [status |-> "ok", value |-> SubSeq(multiplier_rform.data, 1, num_nonzero)]

\* Lines 85-92, num_nonzero being the number of all-zero rows of the Hermite form
last_rows(self, hermite_rform, multiplier_rform, num_nonzero) ==
    IF num_nonzero = 0
    THEN [status |-> "ok", value |-> <<[j \in DOMAIN self.variables |-> 0]>>]
    ELSE IF \E i \in (Len(hermite_rform.data) - num_nonzero + 1)..Len(hermite_rform.data) :
                ~IsZeroRow(hermite_rform.data[i])
         THEN [status |-> "AssertionError", value |-> <<>>]
    ELSE IF multiplier_rform.shape[2] # Len(self.variables)
         THEN [status |-> "AssertionError", value |-> <<>>]
    ELSE [status |-> "ok",
          value |-> SubSeq(multiplier_rform.data,
                           Len(multiplier_rform.data) - num_nonzero + 1, Len(multiplier_rform.data))]

\* Lines 82-92 on the Hermite form and its multiplier
scaling_rows(self, HU) ==
    last_rows(self, HU[1], HU[2],
              Cardinality({i \in DOMAIN HU[1].data : IsZeroRow(HU[1].data[i])}))

WithAux(res, pm, HU) == [status |-> res.status, value |-> res.value, aux |-> <<pm, HU[1], HU[2]>>]

scaling_of(self, pm, HU) == WithAux(scaling_rows(self, HU), pm, HU)

scaling_from(self, pm) ==
    IF pm.status # "ok" THEN [status |-> pm.status, value |-> <<>>, aux |-> <<>>]
    ELSE scaling_of(self, pm.value, hnf_row(pm.value))

maximal_scaling_matrix(self, order) == scaling_from(self, power_matrix(self, order))

\* sorted(map(str, variables))
RECURSIVE Repeat(_, _)
Repeat(x, k) == IF k = 0 THEN <<>> ELSE <<x>> \o Repeat(x, k - 1)

CountStr(seq, nm) == Cardinality({i \in DOMAIN seq : str(seq[i]) = nm})

sorted_strs(seq) ==
    Repeat("s", CountStr(seq, "s")) \o Repeat("t", CountStr(seq, "t")) \o Repeat("x", CountStr(seq, "x"))

\* Lines 97-101: for each requested variable, every position of that name
Hits(self, new_var) ==
    SelectSeq([i \in DOMAIN self.variables |-> i], LAMBDA i : str(self.variables[i]) = str(new_var))

column_shuffle(self, variables_) == Flatten([k \in DOMAIN variables_ |-> Hits(self, variables_[k])])

\* Lines 102-103
shuffled(self, shuffle) ==
    [self EXCEPT !.variables = [k \in DOMAIN shuffle |-> self.variables[shuffle[k]]],
                 !.derivatives = [k \in DOMAIN shuffle |-> self.derivatives[shuffle[k]]]]

\* reorder_variables comparing the sets of names, not the sorted lists
reorder_variables_sets(self, variables_) ==
    IF {str(v) : v \in Range(variables_)} # {str(v) : v \in Range(self.variables)}
    THEN [status |-> "AssertionError", self |-> self]
    ELSE [status |-> "ok", self |-> shuffled(self, column_shuffle(self, variables_))]

reorder_variables(self, variables_) ==
    IF sorted_strs(variables_) # sorted_strs(self.variables)
    THEN [status |-> "AssertionError", self |-> self]
    ELSE [status |-> "ok", self |-> shuffled(self, column_shuffle(self, variables_))]

\* parse_de on a line d<var>/d<indep> = <expr>
parse_de(diff_eq, indep_var_) ==
    IF diff_eq.indep # indep_var_ THEN [status |-> "ValueError", value |-> <<>>]
    ELSE [status |-> "ok", value |-> <<diff_eq.var, diff_eq.expr>>]

\* dict(pairs).get(var): the value of the last pair with that key, else None
dict_get(pairs, var) ==
    IF \A i \in DOMAIN pairs : pairs[i][1] # var THEN None
    ELSE pairs[LastOf({i \in DOMAIN pairs : pairs[i][1] = var})][2]

\* Line 52-53: dependent variables, the independent variable, the parameters
ordered_variables(equations, indep_var_) ==
    unique_array_stable(
        sorted_by_str({equations[i][1] : i \in DOMAIN equations})
        \o <<indep_var_>>
        \o sorted_by_str(expressions_to_variables({equations[i][2] : i \in DOMAIN equations})))

\* Line 58
build(equations, variables_) ==
    init(variables_, [i \in DOMAIN variables_ |-> dict_get(equations, variables_[i])], NoSym)

\* Lines 52-58 on the parsed pairs
assemble(equations, indep_var_) ==
    IF dict_get(equations, indep_var_) # None
    THEN [status |-> "AssertionError", self |-> NoSys]
    ELSE build(Append(equations, <<indep_var_, One>>), ordered_variables(equations, indep_var_))

from_parsed(parsed, indep_var_) ==
    IF \E i \in DOMAIN parsed : parsed[i].status # "ok"
    THEN [status |-> "ValueError", self |-> NoSys]
    ELSE assemble([i \in DOMAIN parsed |-> parsed[i].value], indep_var_)

\* ODESystem.from_equations: every line goes through parse_de(line), indep_var left at its default
from_equations(lines, indep_var_) == from_parsed([i \in DOMAIN lines |-> parse_de(lines[i], "t")], indep_var_)

\* ------------------------------------------------------------------ inputs
X == [num |-> <<Sym("x")>>, den |-> <<Const(1)>>]
InvT == [num |-> <<Const(1)>>, den |-> <<Sym("t")>>]
XOverX1 == [num |-> <<Sym("x")>>, den |-> <<Sym("x"), Const(1)>>]
S2OverX3 == [num |-> <<Const(2), Sym("s")>>, den |-> <<Const(3), Sym("x")>>]
SXTOverTXS == [num |-> <<Sym("s"), MonMul(Sym("x"), Sym("t"))>>, den |-> <<Sym("t"), Sym("x"), Sym("s")>>]
TwoOverXST == [num |-> <<Const(2)>>, den |-> <<MonMul(Sym("x"), Sym("s")), Sym("t")>>]

\* derivative entries given to the constructor
Derivs == {None, Zero, One, X, InvT}

\* right-hand sides of equation lines
LineExprs == {Zero, One, X, XOverX1}

\* expressions given to rational_expr_to_power_matrix directly
RatExprs == {Zero, One, X, InvT, XOverX1, S2OverX3, SXTOverTXS, TwoOverXST}

Lines == [var : PlainSyms, indep : {"t", "s"}, expr : LineExprs]

\* ----------------------------------------------------------------- actions
\* sys is the ODESystem instance (NoSys before construction); ret records the
\* last call: its arguments, its outcome and the instance it was made on.
Ret(op, status, arg, value, aux, pre) ==
    [op |-> op, status |-> status, arg |-> arg, value |-> value, aux |-> aux, pre |-> pre]

Init ==
    /\ sys = NoSys
    /\ ret = Ret("start", "ok", <<>>, <<>>, <<>>, NoSys)

Made(op, r, arg) ==
    /\ sys' = r.self
    /\ ret' = Ret(op, r.status, IF r.status = "ok" THEN arg ELSE <<>>, <<>>, <<>>, sys)

Construct ==
    /\ ret.op = "start"
    /\ \E vs \in SeqsUpTo(CtorSyms, MaxVars), ds \in SeqsUpTo(Derivs, MaxVars), iv \in CtorSyms \cup {NoSym} :
          Made("__init__", init(vs, ds, iv), <<vs, ds, iv>>)

FromEquations ==
    /\ ret.op = "start"
    /\ \E ls \in NonEmptySeqs(Lines, MaxEqs), iv \in {"t", "s"} :
          /\ sys' = from_equations(ls, iv).self
          /\ ret' = Ret("from_equations", from_equations(ls, iv).status, <<ls, iv>>, <<>>, <<>>, sys)

Returned(op, r, arg) ==
    /\ ret' = Ret(op, r.status, arg, r.value, <<>>, sys)
    /\ UNCHANGED sys

ParseDe ==
    /\ ret.op = "start"
    /\ \E l \in Lines, iv \in {"t", "s"} : Returned("parse_de", parse_de(l, iv), <<l, iv>>)

RationalExprToPowerMatrix ==
    /\ ret.op = "start"
    /\ \E e \in RatExprs, vs \in NonEmptySeqs(Syms, MaxVars) :
          /\ ret' = Ret("rational_expr_to_power_matrix", "ok", <<e, vs>>,
                        rational_expr_to_power_matrix(e, vs), <<>>, sys)
          /\ UNCHANGED sys

ReorderVariables ==
    /\ sys # NoSys
    /\ \E vs \in SeqsUpTo(PlainSyms, MaxOrder) : Made("reorder_variables", reorder_variables(sys, vs), vs)

\* The three read-only methods return the same value however often they are
\* called on an unchanged instance: each is taken on the instance as the last
\* constructing or reordering call left it.
Settled == sys # NoSys /\ ret.op \in {"__init__", "from_equations", "reorder_variables"}

Repr ==
    /\ Settled
    /\ ret' = Ret("__repr__", "ok", <<>>, repr(sys), <<>>, sys)
    /\ UNCHANGED sys

PowerMatrix ==
    /\ Settled
    /\ \E order \in Perms(derivative_dict_keys(sys)) :
          Returned("power_matrix", power_matrix(sys, order), order)

Scaled(r, order) ==
    /\ ret' = Ret("maximal_scaling_matrix", r.status, order, r.value, r.aux, sys)
    /\ UNCHANGED sys

MaximalScalingMatrix ==
    /\ Settled
    /\ \E order \in Perms(derivative_dict_keys(sys)) : Scaled(maximal_scaling_matrix(sys, order), order)

Next ==
    \/ Construct
    \/ FromEquations
    \/ ParseDe
    \/ RationalExprToPowerMatrix
    \/ ReorderVariables
    \/ Repr
    \/ PowerMatrix
    \/ MaximalScalingMatrix

\* ------------------------------------------------------------------ claims
Names == {str(v) : v \in Syms}

Count(seq, nm) == Cardinality({i \in DOMAIN seq : str(seq[i]) = nm})

FirstIndex(seq, v) == CHOOSE i \in DOMAIN seq : seq[i] = v /\ \A j \in DOMAIN seq : seq[j] = v => i <= j

RECURSIVE Dot(_, _, _)
Dot(row, A, j) == IF row = <<>> THEN 0 ELSE Head(row) * Head(A)[j] + Dot(Tail(row), Tail(A), j)

\* row . A for a matrix A given by its rows, each `width` long
RowTimes(row, A, width) == [j \in 1..width |-> Dot(row, A, j)]

AllZero(row) == \A j \in DOMAIN row : row[j] = 0

ZeroRowsOf(H) == {i \in DOMAIN H.data : AllZero(H.data[i])}

\* C1: when maximal_scaling_matrix returns, the multiplier U and the Hermite
\* form H of the power matrix A satisfy U.A = H, every returned row times A is
\* the zero row, and the result is the single all-zero row when no row of H is
\* all zero, else the rows of U at the positions of the all-zero rows of H.
C1_RowsInLeftNullspace ==
    (ret.op = "maximal_scaling_matrix" /\ ret.status = "ok") =>
        LET A == ret.aux[1]
            H == ret.aux[2]
            U == ret.aux[3]
            zs == ZeroRowsOf(H)
        IN  /\ \A i \in DOMAIN U.data : RowTimes(U.data[i], A.data, A.shape[2]) = H.data[i]
            /\ \A k \in DOMAIN ret.value : AllZero(RowTimes(ret.value[k], A.data, A.shape[2]))
            /\ \/ zs = {} /\ ret.value = <<[j \in DOMAIN ret.pre.variables |-> 0]>>
               \/ /\ zs # {}
                  /\ Len(ret.value) = Cardinality(zs)
                  /\ \A k \in DOMAIN ret.value :
                        \E i \in zs : ret.value[k] = U.data[i] /\ i = Len(U.data) - Len(ret.value) + k

\* rows of U came back while H also has rows that are not zero
C1_Witness ==
    /\ ret.op = "maximal_scaling_matrix"
    /\ ret.status = "ok"
    /\ ZeroRowsOf(ret.aux[2]) # {}
    /\ ZeroRowsOf(ret.aux[2]) # DOMAIN ret.aux[2].data
    /\ \E k \in DOMAIN ret.value : ~AllZero(ret.value[k])

\* C2: maximal_scaling_matrix always returns a matrix with len(variables)
\* columns and at least one row: as many rows as H has all-zero rows, and one
\* all-zero row when H has none.
C2_AlwaysReturnsRows ==
    ret.op = "maximal_scaling_matrix" =>
        /\ ret.status = "ok"
        /\ Len(ret.value) >= 1
        /\ \A k \in DOMAIN ret.value : Len(ret.value[k]) = Len(sys.variables)
        /\ IF ZeroRowsOf(ret.aux[2]) = {}
           THEN ret.value = <<[j \in DOMAIN sys.variables |-> 0]>>
           ELSE Len(ret.value) = Cardinality(ZeroRowsOf(ret.aux[2]))

\* C3: an instance always has as many derivatives as variables and the stored
\* derivative at the first position of the independent variable is 1; a
\* constructor call succeeds only on arguments with equal counts, the
\* independent variable among the variables and its derivative 1 (so it fails
\* on all others), and a failed call leaves no instance.
C3_WellFormed ==
    /\ sys # NoSys =>
          /\ Len(sys.variables) = Len(sys.derivatives)
          /\ sys.indep_var \in Range(sys.variables)
          /\ sys.derivatives[FirstIndex(sys.variables, sys.indep_var)] = One
    /\ (ret.op = "__init__" /\ ret.status = "ok") =>
          LET vs == ret.arg[1]
              ds == ret.arg[2]
              iv == IF ret.arg[3] = NoSym THEN "t" ELSE ret.arg[3]
          IN  /\ Len(vs) = Len(ds)
              /\ iv \in Range(vs)
              /\ ds[FirstIndex(vs, iv)] = One
              /\ sys = [variables |-> vs, derivatives |-> ds, indep_var |-> iv]
    /\ (ret.op = "__init__" /\ ret.status # "ok") => sys = NoSys

\* a reordering call moved the independent variable to another position
C3_Witness ==
    /\ ret.op = "reorder_variables"
    /\ ret.status = "ok"
    /\ FirstIndex(sys.variables, sys.indep_var) # FirstIndex(ret.pre.variables, ret.pre.indep_var)
    /\ \E i \in DOMAIN sys.derivatives : sys.derivatives[i] \notin {One, None}

\* C4: reorder_variables with the names of the current order leaves variables
\* and derivatives unchanged, and every accepted call permutes the
\* (variable, derivative) pairs: the lengths stay and each variable keeps its
\* own derivative.
C4_IdentityAndJoint ==
    (ret.op = "reorder_variables" /\ ret.status = "ok") =>
        /\ Len(sys.variables) = Len(ret.pre.variables)
        /\ Len(sys.derivatives) = Len(ret.pre.derivatives)
        /\ \A i \in DOMAIN sys.variables :
              \E j \in DOMAIN ret.pre.variables :
                  sys.variables[i] = ret.pre.variables[j] /\ sys.derivatives[i] = ret.pre.derivatives[j]
        /\ [i \in DOMAIN ret.arg |-> str(ret.arg[i])] = [i \in DOMAIN ret.pre.variables |-> str(ret.pre.variables[i])]
              => (sys.variables = ret.pre.variables /\ sys.derivatives = ret.pre.derivatives)

\* C5: reorder_variables accepts a sequence only when every name occurs in it
\* as often as among the current variables (so it fails on every other
\* sequence), and a failed call leaves variables, derivatives and the
\* independent variable as they were.
C5_MismatchRejectedUnchanged ==
    ret.op = "reorder_variables" =>
        /\ ret.status = "ok" => \A nm \in Names : Count(ret.arg, nm) = Count(ret.pre.variables, nm)
        /\ ret.status # "ok" => (ret.status = "AssertionError" /\ sys = ret.pre)

\* a call was rejected on an instance of several variables, which is as before
C5_Witness ==
    /\ ret.op = "reorder_variables"
    /\ ret.status = "AssertionError"
    /\ sys = ret.pre
    /\ Len(sys.variables) >= 2
    /\ sys.variables[1] = sys.indep_var

\* C6: parse_de and from_equations fail with ValueError, and make no
\* instance, whenever a line's denominator identifier differs from the
\* configured independent variable.
C6_WrongIndepRejected ==
    /\ (ret.op = "parse_de" /\ ret.arg[1].indep # ret.arg[2]) =>
          (ret.status = "ValueError" /\ sys = NoSys)
    /\ (ret.op = "from_equations" /\ \E i \in DOMAIN ret.arg[1] : ret.arg[1][i].indep # ret.arg[2]) =>
          (ret.status = "ValueError" /\ sys = NoSys)

SpecifiedIndices(self) ==
    SelectSeq([i \in DOMAIN self.variables |-> i], LAMBDA i : self.derivatives[i] # None)

\* C7 as stated: __repr__ gives one line per variable with a specified
\* derivative, none for the others, in the variable order.
C7_OnlySpecifiedLines ==
    ret.op = "__repr__" =>
        ret.value = [k \in DOMAIN SpecifiedIndices(sys) |->
                        [var |-> str(sys.variables[SpecifiedIndices(sys)[k]]),
                         indep |-> str(sys.indep_var),
                         expr |-> sys.derivatives[SpecifiedIndices(sys)[k]]]]

\* C7 amended: __repr__ gives one line d<var>/d<indep> = <expr> per variable,
\* in the variable order; the line of a variable with an unspecified
\* derivative shows 0.
C7_OneLinePerVariable ==
    ret.op = "__repr__" =>
        /\ Len(ret.value) = Len(sys.variables)
        /\ \A i \in DOMAIN ret.value :
              /\ ret.value[i].var = str(sys.variables[i])
              /\ ret.value[i].indep = str(sys.indep_var)
              /\ ret.value[i].expr = IF sys.derivatives[i] = None THEN Zero ELSE sys.derivatives[i]

\* an instance with an unspecified derivative was printed
C7_Witness ==
    /\ ret.op = "__repr__"
    /\ Len(ret.value) >= 2
    /\ \E i \in DOMAIN sys.derivatives : sys.derivatives[i] = None
    /\ \E i \in DOMAIN sys.derivatives : sys.derivatives[i] = Zero

NumberTerms(poly) == SelectSeq(poly, LAMBDA m : m.e = ZeroPow /\ m.cn # 0)

OtherTerms(poly) == SelectSeq(poly, LAMBDA m : m.e # ZeroPow)

ExpVec(m, vs) == [i \in DOMAIN vs |-> m.e[vs[i]]]

ExpDiff(m, ref, vs) == [i \in DOMAIN vs |-> m.e[vs[i]] - ref.e[vs[i]]]

\* the columns of an array; a 1-d array has none
Columns(a) ==
    IF Len(a.shape) < 2 THEN <<>>
    ELSE [j \in 1..a.shape[2] |-> [i \in 1..a.shape[1] |-> a.data[i][j]]]

\* the columns the three cases prescribe for the expression e over vs
CaseColumns(e, vs) ==
    LET NT == OtherTerms(e.num)
        DT == OtherTerms(e.den)
    IN  IF NumberTerms(e.den) # <<>>
        THEN [i \in DOMAIN NT |-> ExpVec(NT[i], vs)]
             \o (IF NumberTerms(e.num) # <<>> THEN <<[i \in DOMAIN vs |-> 0]>> ELSE <<>>)
             \o [i \in DOMAIN DT |-> ExpVec(DT[i], vs)]
        ELSE IF NumberTerms(e.num) # <<>>
        THEN [i \in DOMAIN NT |-> ExpVec(NT[i], vs)] \o [i \in DOMAIN DT |-> ExpVec(DT[i], vs)]
        ELSE [i \in DOMAIN NT |-> ExpDiff(NT[i], DT[Len(DT)], vs)]
             \o [i \in 1..(Len(DT) - 1) |-> ExpDiff(DT[i], DT[Len(DT)], vs)]

CaseCount(e) ==
    Len(OtherTerms(e.num)) + Len(OtherTerms(e.den))
    + (IF NumberTerms(e.den) # <<>> THEN (IF NumberTerms(e.num) # <<>> THEN 1 ELSE 0)
       ELSE IF NumberTerms(e.num) # <<>> THEN 0 ELSE -1)

\* C8: the columns of rational_expr_to_power_matrix are those of the three
\* cases (reference 1 with the numerator constant as an extra column; reference
\* 1; the last denominator term as the reference, removed and subtracted from
\* every other term), so their number is the number of non-constant terms
\* plus 1, plus 0 or minus 1.
C8_ThreeCases ==
    ret.op = "rational_expr_to_power_matrix" =>
        /\ Columns(ret.value) = CaseColumns(ret.arg[1], ret.arg[2])
        /\ Len(Columns(ret.value)) = CaseCount(ret.arg[1])

\* both constants are zero, the denominator has several terms and one of the
\* remaining terms differs from the reference in a listed variable
C8_Witness ==
    /\ ret.op = "rational_expr_to_power_matrix"
    /\ NumberTerms(ret.arg[1].num) = <<>>
    /\ NumberTerms(ret.arg[1].den) = <<>>
    /\ Len(ret.arg[1].den) >= 3
    /\ ret.value.shape = <<Len(ret.arg[2]), Len(ret.arg[1].num) + Len(ret.arg[1].den) - 1>>
    /\ \E j \in DOMAIN Columns(ret.value) : \E i \in DOMAIN ret.arg[2] : Columns(ret.value)[j][i] < 0

\* C9: an expression without surviving terms gives a matrix of len(variables)
\* rows and no column, and power_matrix on a system with such an equation
\* returns a matrix of len(variables) rows.
C9_EmptyBlockIsMatrix ==
    /\ (ret.op = "rational_expr_to_power_matrix" /\ ret.arg[1] = Zero) =>
          ret.value.shape = <<Len(ret.arg[2]), 0>>
    /\ (ret.op = "power_matrix" /\ \E k \in derivative_dict_keys(sys) : derivative_dict(sys, k) = Zero) =>
          (ret.status = "ok" /\ ret.value.shape[1] = Len(sys.variables))

\* C10: power_matrix returns the blocks of the variables with a specified
\* derivative, one each and in the variable order, as a matrix of
\* len(variables) rows.
C10_BlocksInVariableOrder ==
    ret.op = "power_matrix" =>
        /\ ret.status = "ok"
        /\ ret.value.shape[1] = Len(sys.variables)
        /\ Columns(ret.value) =
              Flatten([k \in DOMAIN SpecifiedIndices(sys) |->
                  Columns(rational_expr_to_power_matrix(
                      MulDiv(sys.indep_var, sys.derivatives[SpecifiedIndices(sys)[k]],
                             sys.variables[SpecifiedIndices(sys)[k]]),
                      sys.variables))])

Spec == Init /\ [][Next]_vars

====
